---- MODULE Spec2Model ----
(***************************************************************************)
(* CAPM analysis (src/main.py): calculate_capm and the main execution that *)
(* prints its result sorted by Beta.                                       *)
(*                                                                         *)
(* Numbers.  The program computes in IEEE doubles (numpy float64).  The    *)
(* model keeps the three kinds of double that decide control flow and the  *)
(* content of the report - finite, infinite, NaN - and computes finite     *)
(* values as exact rationals n/d in lowest terms.  Rounding error of the   *)
(* doubles and the sign of zero are not modelled.                          *)
(*                                                                         *)
(* Libraries.  pandas (resample/last, pct_change, dropna, sort_values) and *)
(* scipy.stats.linregress are modelled by what the calls of main.py do:    *)
(* pct_change with its default fill_method='pad', linregress with its      *)
(* two ValueErrors (empty input, all x identical) and np.cov(bias=1).      *)
(***************************************************************************)
EXTENDS Integers, Sequences, FiniteSets

(***************************************************************************)
(* float64 values                                                          *)
(***************************************************************************)
RECURSIVE GCD(_, _)
GCD(a, b) == IF b = 0 THEN a ELSE GCD(b, a % b)

Abs(x) == IF x < 0 THEN -x ELSE x

Sign(x) == IF x < 0 THEN -1 ELSE IF x > 0 THEN 1 ELSE 0

\* The finite double n/d (d > 0), in lowest terms.
Fin(n, d) ==
    LET g == GCD(Abs(n), d)
    IN  [k |-> "fin", n |-> n \div g, d |-> d \div g]

NaN == [k |-> "nan", n |-> 0, d |-> 1]

\* +inf (s = 1) or -inf (s = -1).
Inf(s) == [k |-> "inf", n |-> s, d |-> 1]

Zero == Fin(0, 1)

One == Fin(1, 1)

isna(v) == v.k = "nan"

isfinite(v) == v.k = "fin"

SignOf(v) == Sign(v.n)

Neg(a) == [a EXCEPT !.n = -a.n]

\* a + b on doubles: NaN propagates, inf + -inf = NaN.
Add(a, b) ==
    IF isna(a) \/ isna(b) THEN NaN
    ELSE IF a.k = "inf" /\ b.k = "inf" THEN (IF a.n = b.n THEN a ELSE NaN)
    ELSE IF a.k = "inf" THEN a
    ELSE IF b.k = "inf" THEN b
    ELSE LET g == GCD(a.d, b.d)
         IN  Fin(a.n * (b.d \div g) + b.n * (a.d \div g), (a.d \div g) * b.d)

Sub(a, b) == Add(a, Neg(b))

\* a * b on doubles: NaN propagates, inf * 0 = NaN.
Mul(a, b) ==
    IF isna(a) \/ isna(b) THEN NaN
    ELSE IF a.k = "inf" \/ b.k = "inf"
         THEN (IF SignOf(a) * SignOf(b) = 0 THEN NaN ELSE Inf(SignOf(a) * SignOf(b)))
    ELSE LET g1 == GCD(Abs(a.n), b.d)
             g2 == GCD(Abs(b.n), a.d)
         IN  Fin((a.n \div g1) * (b.n \div g2), (a.d \div g2) * (b.d \div g1))

\* a / b on numpy doubles: x/0 is inf (x # 0) or NaN (x = 0) and raises nothing.
Div(a, b) ==
    IF isna(a) \/ isna(b) THEN NaN
    ELSE IF b.k = "inf" THEN (IF a.k = "inf" THEN NaN ELSE Zero)
    ELSE IF b.n = 0
         THEN (IF SignOf(a) = 0 THEN NaN ELSE Inf(SignOf(a)))
    ELSE IF a.k = "inf" THEN Inf(SignOf(a) * SignOf(b))
    ELSE Mul(a, Fin(Sign(b.n) * b.d, Abs(b.n)))

\* a == b on doubles: NaN equals nothing.
NumEq(a, b) == ~isna(a) /\ ~isna(b) /\ a = b

\* a < b on doubles: false when either is NaN.
Less(a, b) ==
    IF isna(a) \/ isna(b) THEN FALSE
    ELSE IF a.k = "inf" THEN a.n < 0 /\ a # b
    ELSE IF b.k = "inf" THEN b.n > 0
    ELSE a.n * b.d < b.n * a.d

Pow10(e) == IF e = 2 THEN 100 ELSE 10000

\* round(v, ndigits) of a numpy double: rint(v * 10^ndigits) / 10^ndigits, ties to
\* the even integer; inf and NaN stay what they are.
Round(v, ndigits) ==
    IF ~isfinite(v) THEN v
    ELSE LET s   == Pow10(ndigits)
             num == v.n * s
             q   == num \div v.d
             r   == num % v.d
             up  == 2 * r > v.d \/ (2 * r = v.d /\ q % 2 = 1)
         IN  Fin(IF up THEN q + 1 ELSE q, s)

(***************************************************************************)
(* Inputs                                                                  *)
(***************************************************************************)
\* Rows of a downloaded price table, at most.
MaxRows == 3

\* Downloaded prices are 0..MaxPrice, or missing (NaN).
MaxPrice == 2

\* Calendar months without any observation between two consecutive rows, at most.
MaxGap == 1

benchmark == "SPY"

\* The ticker lists of the modelled runs: none, one and two
\* (names of top_10_stocks).
TickerLists ==
    {<<>>, <<"AAPL">>, <<"AAPL", "GOOGL">>}

Range(s) == {s[i] : i \in DOMAIN s}

\* The function f on 1..n as a sequence with its elements evaluated.
AsSeq(f) == << >> \o f

\* all_symbols = tickers + [benchmark]: the columns of the downloaded table.
all_symbols(tk) == Range(tk) \cup {benchmark}

Max(S) == CHOOSE x \in S : \A y \in S : y <= x

\* What yfinance may put in a cell of 'Adj Close': a price, or NaN where the symbol
\* has no observation on that date.  Tables of several tickers are drawn complete
\* and positive, which bounds the model.
Cells(tk) ==
    IF Len(tk) <= 1
    THEN {NaN} \cup {Fin(p, 1) : p \in 0..MaxPrice}
    ELSE {Fin(p, 1) : p \in 1..MaxPrice}

\* The rows a download may hold: the table has a row for a date only if some symbol
\* has an observation on it.
Rows(tk) ==
    {r \in [all_symbols(tk) -> Cells(tk)] : \E s \in all_symbols(tk) : ~isna(r[s])}

\* The calendar month of each of n rows in date order: months never decrease, and
\* at most MaxGap months are skipped between two rows.  A run on daily data never
\* reads the dates, and draws the one calendar with every row in the same month.
Calendars(n, m) ==
    {c \in [1..n -> 0..((MaxGap + 1) * MaxRows)] :
        /\ n > 0 => c[1] = 0
        /\ \A i \in 1..(n - 1) :
              c[i + 1] - c[i] \in (IF m THEN 0..(MaxGap + 1) ELSE {0})}

\* A price table: rows in date order, each with its date label, its calendar month
\* and one cell per symbol.
MakeTable(n, c, p) ==
    [i \in 1..n |-> [date |-> i, month |-> c[i], px |-> p[i]]]

\* The price table of the regression example: AAPL = [100, 110, 121] and
\* SPY = [100, 105, 110.25] at three consecutive month ends.
ExampleTable ==
    << [date |-> 1, month |-> 0, px |-> [s \in {"AAPL", "SPY"} |->
            Fin(100, 1)]],
       [date |-> 2, month |-> 1, px |-> [s \in {"AAPL", "SPY"} |->
            IF s = "AAPL" THEN Fin(110, 1) ELSE Fin(105, 1)]],
       [date |-> 3, month |-> 2, px |-> [s \in {"AAPL", "SPY"} |->
            IF s = "AAPL" THEN Fin(121, 1) ELSE Fin(441, 4)]] >>

(***************************************************************************)
(* pandas                                                                  *)
(***************************************************************************)
\* Column s of one calendar month under .last(): the last non-NaN value among the
\* month's rows, NaN when the month has none.
LastValid(data, m, s) ==
    LET idx == {i \in 1..Len(data) : data[i].month = m /\ ~isna(data[i].px[s])}
    IN  IF idx = {} THEN NaN ELSE data[Max(idx)].px[s]

\* data.resample('M').last(): one row per calendar month from the first row's month
\* to the last row's, labelled by the month; a month without rows is a row of NaN.
resample_last(data) ==
    IF Len(data) = 0 THEN << >>
    ELSE LET first == data[1].month
             last  == data[Len(data)].month
         IN  [j \in 1..(last - first + 1) |->
                [date  |-> first + j - 1,
                 month |-> first + j - 1,
                 px    |-> [s \in DOMAIN data[1].px |->
                               LastValid(data, first + j - 1, s)]]]

\* Forward fill (fill_method='pad'): the last non-NaN value of column s in rows 1..i.
pad(data, i, s) ==
    LET idx == {j \in 1..i : ~isna(data[j].px[s])}
    IN  IF idx = {} THEN NaN ELSE data[Max(idx)].px[s]

\* data.pct_change(): pad the table, then padded / padded.shift(1) - 1; the first row
\* has nothing to be divided by and is NaN.
pct_change(data) ==
    [i \in 1..Len(data) |->
        [data[i] EXCEPT !.px = [s \in DOMAIN data[i].px |->
            IF i = 1 THEN NaN
            ELSE Sub(Div(pad(data, i, s), pad(data, i - 1, s)), One)]]]

HasNa(row) == \E s \in DOMAIN row.px : isna(row.px[s])

\* .dropna(): the rows without any NaN (an infinite value is not NaN and stays).
dropna(rows) == SelectSeq(rows, LAMBDA r : ~HasNa(r))

\* returns[s]: column s of a table.
Column(rows, s) == AsSeq([i \in 1..Len(rows) |-> rows[i].px[s]])

\* series - scalar.
SubScalar(col, c) == AsSeq([i \in 1..Len(col) |-> Sub(col[i], c)])

(***************************************************************************)
(* scipy.stats.linregress                                                  *)
(***************************************************************************)
RECURSIVE SumTo(_, _)
SumTo(x, n) == IF n = 0 THEN Zero ELSE Add(SumTo(x, n - 1), x[n])

\* np.mean(x): the sum over the count.
mean(x) == Div(SumTo(x, Len(x)), Fin(Len(x), 1))

RECURSIVE amax(_, _)
\* np.amax of x[1..n] (n >= 1): NaN if any element is NaN.
amax(x, n) ==
    IF n = 1 THEN x[1]
    ELSE LET m == amax(x, n - 1)
         IN  IF isna(m) \/ isna(x[n]) THEN NaN
             ELSE IF Less(m, x[n]) THEN x[n] ELSE m

RECURSIVE amin(_, _)
\* np.amin of x[1..n] (n >= 1): NaN if any element is NaN.
amin(x, n) ==
    IF n = 1 THEN x[1]
    ELSE LET m == amin(x, n - 1)
         IN  IF isna(m) \/ isna(x[n]) THEN NaN
             ELSE IF Less(x[n], m) THEN x[n] ELSE m

\* np.cov(x, y, bias=1).flat without its third entry: the means of the squared
\* deviations of x, of the products of the deviations of x and y, and of the squared
\* deviations of y.
np_cov(x, y) ==
    LET n  == Fin(Len(x), 1)
        mx == mean(x)
        my == mean(y)
        dx == AsSeq([i \in 1..Len(x) |-> Sub(x[i], mx)])
        dy == AsSeq([i \in 1..Len(x) |-> Sub(y[i], my)])
    IN  [ssxm  |-> Div(SumTo([i \in 1..Len(x) |-> Mul(dx[i], dx[i])], Len(x)), n),
         ssxym |-> Div(SumTo([i \in 1..Len(x) |-> Mul(dx[i], dy[i])], Len(x)), n),
         ssym  |-> Div(SumTo([i \in 1..Len(x) |-> Mul(dy[i], dy[i])], Len(x)), n)]

EmptyInputs == "ValueError: Inputs must not be empty."

IdenticalX ==
    "ValueError: Cannot calculate a linear regression if all x values are identical"

\* linregress_raises without the check for identical x values.
linregress_raises_on_empty_only(x, y) ==
    IF Len(x) = 0 \/ Len(y) = 0 THEN EmptyInputs ELSE ""

\* Whether linregress(x, y) raises, and what ("" when it does not).
linregress_raises(x, y) ==
    IF Len(x) = 0 \/ Len(y) = 0 THEN EmptyInputs
    ELSE IF NumEq(amax(x, Len(x)), amin(x, Len(x))) /\ Len(x) > 1 THEN IdenticalX
    ELSE ""

\* linregress with the slope taken over the variance of y instead of x.
linregress_over_ssym(x, y) ==
    LET c == np_cov(x, y)
        b == Div(c.ssxym, c.ssym)
    IN  [slope     |-> b,
         intercept |-> Sub(mean(y), Mul(b, mean(x))),
         rsq       |-> IF NumEq(c.ssxm, Zero) \/ NumEq(c.ssym, Zero) THEN Zero
                       ELSE Div(Mul(c.ssxym, c.ssxym), Mul(c.ssxm, c.ssym))]

\* What linregress(x, y) returns when it does not raise: slope = ssxym / ssxm,
\* intercept = ymean - slope * xmean, and r_value, kept as its square: r_value is 0
\* if ssxm or ssym is 0 and otherwise ssxym / sqrt(ssxm * ssym) (clipped to [-1, 1],
\* which changes no exact value).
linregress(x, y) ==
    LET c == np_cov(x, y)
        b == Div(c.ssxym, c.ssxm)
    IN  [slope     |-> b,
         intercept |-> Sub(mean(y), Mul(b, mean(x))),
         rsq       |-> IF NumEq(c.ssxm, Zero) \/ NumEq(c.ssym, Zero) THEN Zero
                       ELSE Div(Mul(c.ssxym, c.ssxym), Mul(c.ssxm, c.ssym))]

(***************************************************************************)
(* calculate_capm                                                          *)
(***************************************************************************)
\* rf_annual = 0.04
rf_annual == Fin(4, 100)

\* Periods per year: 12 with monthly data, 252 with daily data.
periods(m) == IF m THEN 12 ELSE 252

\* period_rate with the daily branch dividing by 12 as well.
period_rate_always_12(m) == Div(rf_annual, Fin(12, 1))

\* rf_monthly = rf_annual / 12 if monthly, rf_annual / 252 otherwise.
period_rate(m) == Div(rf_annual, Fin(periods(m), 1))

\* alpha_annual = alpha * 12 if monthly, alpha * 252 otherwise.
annualize(a, m) == Mul(a, Fin(periods(m), 1))

\* The excess return series of column s: returns[s] - rf_monthly.
excess(rets, s, rf) == SubScalar(Column(rets, s), rf)

\* The row appended to results for one stock.
result_row(stock, b, aa, r2) ==
    [Stock |-> stock, Beta |-> Round(b, 2), Alpha |-> Round(aa, 4),
     RSquared |-> Round(r2, 2)]

(***************************************************************************)
(* df_results.sort_values(by='Beta', ascending=False)                      *)
(***************************************************************************)
Perms(S) == {f \in [1..Cardinality(S) -> S] : \A i, j \in DOMAIN f : f[i] = f[j] => i = j}

Reverse(s) == [i \in 1..Len(s) |-> s[Len(s) + 1 - i]]

\* values.argsort(kind='quicksort'): an ordering of the positions of `values` (no
\* NaN among them) by which the values ascend.  quicksort promises no order among
\* equal values, so each such ordering is a possible result.
argsort(values) ==
    {p \in Perms(DOMAIN values) :
        \A i \in 1..(Len(values) - 1) : ~Less(values[p[i + 1]], values[p[i]])}

\* nargsort_desc without the two reversals: the order of ascending=True.
nargsort_asc(items) ==
    LET all         == [i \in 1..Len(items) |-> i]
        non_nan_idx == SelectSeq(all, LAMBDA i : ~isna(items[i]))
        nan_idx     == SelectSeq(all, LAMBDA i : isna(items[i]))
        non_nans    == [i \in 1..Len(non_nan_idx) |-> items[non_nan_idx[i]]]
    IN  {[i \in 1..Len(non_nan_idx) |-> non_nan_idx[p[i]]] \o nan_idx :
            p \in argsort(non_nans)}

\* pandas' nargsort(items, ascending=False, na_position='last'): the non-NaN items
\* are reversed, argsorted ascending and the result reversed; the positions of the
\* NaN items follow in their original order.
nargsort_desc(items) ==
    LET all         == [i \in 1..Len(items) |-> i]
        non_nan_idx == Reverse(SelectSeq(all, LAMBDA i : ~isna(items[i])))
        nan_idx     == SelectSeq(all, LAMBDA i : isna(items[i]))
        non_nans    == [i \in 1..Len(non_nan_idx) |-> items[non_nan_idx[i]]]
    IN  {Reverse([i \in 1..Len(non_nan_idx) |-> non_nan_idx[p[i]]]) \o nan_idx :
            p \in argsort(non_nans)}

\* The frames sort_values(by='Beta', ascending=False) may return.
sort_values_beta_desc(df) ==
    {[i \in 1..Len(df) |-> df[ix[i]]] :
        ix \in nargsort_desc([i \in 1..Len(df) |-> df[i].Beta])}

(***************************************************************************)
(* The program                                                             *)
(***************************************************************************)
VARIABLES
    pc,                 \* where the run stands
    tickers,            \* the list passed to calculate_capm
    monthly,            \* its monthly flag
    data,               \* the price table (resampled in place when monthly)
    returns,            \* data.pct_change().dropna()
    rf_monthly,         \* the period risk-free rate
    results,            \* the rows appended so far
    stock_excess_ret,   \* locals of the loop body, as last assigned
    market_excess_ret,
    beta,
    alpha,
    alpha_annual,
    err,                \* the exception that ended the run, "" if none
    df_results,         \* what calculate_capm returned
    printed             \* the frame the main execution printed

vars ==
    <<pc, tickers, monthly, data, returns, rf_monthly, results, stock_excess_ret,
      market_excess_ret, beta, alpha, alpha_annual, err, df_results, printed>>

\* A local that has not been assigned.
None == [k |-> "none", n |-> 0, d |-> 1]

KeyErrorStock == "KeyError: None of ['Stock'] are in the columns"

Init ==
    /\ pc = "start"
    /\ tickers \in TickerLists
    /\ monthly \in BOOLEAN
    /\ data = << >>
    /\ returns = << >>
    /\ rf_monthly = None
    /\ results = << >>
    /\ stock_excess_ret = << >>
    /\ market_excess_ret = << >>
    /\ beta = None
    /\ alpha = None
    /\ alpha_annual = None
    /\ err = ""
    /\ df_results = << >>
    /\ printed = << >>

\* data = yf.download(all_symbols, ...)['Adj Close']: any table within the bounds, or
\* the table of the regression example.
Download ==
    /\ pc = "start"
    /\ \/ \E n \in 0..MaxRows : \E c \in Calendars(n, monthly) :
            \E p \in [1..n -> Rows(tickers)] :
                data' = MakeTable(n, c, p)
       \/ /\ tickers = <<"AAPL">>
          /\ data' = ExampleTable
    /\ pc' = "resample"
    /\ UNCHANGED <<tickers, monthly, returns, rf_monthly, results, stock_excess_ret,
                   market_excess_ret, beta, alpha, alpha_annual, err, df_results,
                   printed>>

\* if monthly: data = data.resample('M').last()
Resample ==
    /\ pc = "resample"
    /\ data' = IF monthly THEN resample_last(data) ELSE data
    /\ pc' = "pct"
    /\ UNCHANGED <<tickers, monthly, returns, rf_monthly, results, stock_excess_ret,
                   market_excess_ret, beta, alpha, alpha_annual, err, df_results,
                   printed>>

\* returns = data.pct_change().dropna(); rf_monthly = rf_annual / 12 or / 252;
\* results = []
Returns ==
    /\ pc = "pct"
    /\ returns' = dropna(pct_change(data))
    /\ rf_monthly' = period_rate(monthly)
    /\ results' = << >>
    /\ pc' = "loop"
    /\ UNCHANGED <<tickers, monthly, data, stock_excess_ret, market_excess_ret, beta,
                   alpha, alpha_annual, err, df_results, printed>>

\* The stock of the next pass of `for stock in tickers`.
stock == tickers[Len(results) + 1]

\* One pass of the loop body in which linregress returns: a row is appended.
Regress ==
    /\ pc = "loop"
    /\ Len(results) < Len(tickers)
    /\ LET y  == excess(returns, stock, rf_monthly)
           x  == excess(returns, benchmark, rf_monthly)
           lr == linregress(x, y)
           aa == annualize(lr.intercept, monthly)
       IN  /\ linregress_raises(x, y) = ""
           /\ stock_excess_ret' = y
           /\ market_excess_ret' = x
           /\ beta' = lr.slope
           /\ alpha' = lr.intercept
           /\ alpha_annual' = aa
           /\ results' = Append(results, result_row(stock, lr.slope, aa, lr.rsq))
    /\ UNCHANGED <<pc, tickers, monthly, data, returns, rf_monthly, err, df_results,
                   printed>>

\* One pass of the loop body in which linregress raises: nothing catches it, and
\* the run ends without a result.
RegressRaises ==
    /\ pc = "loop"
    /\ Len(results) < Len(tickers)
    /\ LET y == excess(returns, stock, rf_monthly)
           x == excess(returns, benchmark, rf_monthly)
       IN  /\ linregress_raises(x, y) # ""
           /\ stock_excess_ret' = y
           /\ market_excess_ret' = x
           /\ err' = linregress_raises(x, y)
    /\ pc' = "raised"
    /\ UNCHANGED <<tickers, monthly, data, returns, rf_monthly, results, beta, alpha,
                   alpha_annual, df_results, printed>>

\* return pd.DataFrame(results).set_index('Stock'): a frame built from no rows has no
\* column 'Stock', and set_index raises KeyError.
Return ==
    /\ pc = "loop"
    /\ Len(results) = Len(tickers)
    /\ IF results = << >>
       THEN /\ err' = KeyErrorStock
            /\ pc' = "raised"
            /\ UNCHANGED df_results
       ELSE /\ df_results' = results
            /\ pc' = "returned"
            /\ UNCHANGED err
    /\ UNCHANGED <<tickers, monthly, data, returns, rf_monthly, results,
                   stock_excess_ret, market_excess_ret, beta, alpha, alpha_annual,
                   printed>>

\* print(df_results.sort_values(by='Beta', ascending=False))
PrintSorted ==
    /\ pc = "returned"
    /\ printed' \in sort_values_beta_desc(df_results)
    /\ pc' = "done"
    /\ UNCHANGED <<tickers, monthly, data, returns, rf_monthly, results,
                   stock_excess_ret, market_excess_ret, beta, alpha, alpha_annual, err,
                   df_results>>

Next ==
    \/ Download
    \/ Resample
    \/ Returns
    \/ Regress
    \/ RegressRaises
    \/ Return
    \/ PrintSorted

Spec == Init /\ [][Next]_vars

(***************************************************************************)
(* Properties                                                              *)
(***************************************************************************)
\* returns, rf_monthly and results have been assigned.
AfterReturns == pc \in {"loop", "raised", "returned", "done"}

\* calculate_capm has returned a frame.
Reported == pc \in {"returned", "done"}

\* linregress raised in the pass of the loop that was running.
RegressionRaised == pc = "raised" /\ err \in {EmptyInputs, IdenticalX}

\* The locals of the loop body hold the values of a pass.
LocalsAssigned == AfterReturns /\ (Len(results) >= 1 \/ RegressionRaised)

\* The stock of the pass that assigned stock_excess_ret last.
LastStock ==
    IF RegressionRaised THEN tickers[Len(results) + 1] ELSE tickers[Len(results)]

\* The locals beta, alpha and alpha_annual belong to the same pass as the excess
\* return series, and that pass appended the last row of results.
FitDone == AfterReturns /\ Len(results) >= 1 /\ ~RegressionRaised

AllFinite(x) == \A i \in 1..Len(x) : isfinite(x[i])

\* The number of observations (cells that are not NaN) of symbol s in a table.
Observations(tbl, s) == Cardinality({i \in 1..Len(tbl) : ~isna(tbl[i].px[s])})

NoMissing(tbl) == \A i \in 1..Len(tbl) : ~HasNa(tbl[i])

\* The periods per year the claims name: 12 when monthly, 252 otherwise.
PeriodsPerYear == IF monthly THEN 12 ELSE 252

\* C1: for price series of n >= 2 observations without missing values, the return
\* computation yields n - 1 returns per symbol, starting at the second date, and
\* (1 + return[i]) * price[i-1] = price[i] for every one of them.
C1_ReturnsRebuildPrices ==
    (AfterReturns /\ tickers # << >> /\ Len(data) >= 2 /\ NoMissing(data)) =>
        /\ Len(returns) = Len(data) - 1
        /\ returns[1].date = data[2].date
        /\ \A i \in 1..Len(returns) : \A s \in all_symbols(tickers) :
              NumEq(Mul(Add(One, returns[i].px[s]), data[i].px[s]), data[i + 1].px[s])

\* e is r minus 0.04 / PeriodsPerYear, in integers: with r = a/b and e = c/d,
\* c * b * 25 * P = d * (a * 25 * P - b).  An infinite return stays infinite.
IsReturnMinusRate(e, r) ==
    IF isfinite(r)
    THEN /\ isfinite(e)
         /\ e.n * r.d * 25 * PeriodsPerYear = e.d * (r.n * 25 * PeriodsPerYear - r.d)
    ELSE e = r

\* C2: the excess return of every instrument and of the benchmark on every date of
\* the return table is the return minus one period rate, 0.04 / 12 when monthly and
\* 0.04 / 252 otherwise.
C2_ExcessIsReturnMinusRate ==
    /\ AfterReturns =>
          /\ isfinite(rf_monthly)
          /\ rf_monthly.n * 100 * PeriodsPerYear = 4 * rf_monthly.d
    /\ LocalsAssigned =>
          /\ Len(stock_excess_ret) = Len(returns)
          /\ Len(market_excess_ret) = Len(returns)
          /\ \A i \in 1..Len(returns) :
                /\ IsReturnMinusRate(stock_excess_ret[i], returns[i].px[LastStock])
                /\ IsReturnMinusRate(market_excess_ret[i], returns[i].px[benchmark])

\* C2's case: a daily run in which the second instrument's excess returns have been
\* taken over at least two dates.
C2_Witness ==
    /\ LocalsAssigned
    /\ ~monthly
    /\ Len(results) = 2
    /\ Len(stock_excess_ret) >= 2

\* Cov(u, v) as the mean of the products minus the product of the means.
Covariance(u, v) ==
    Sub(mean([i \in 1..Len(u) |-> Mul(u[i], v[i])]), Mul(mean(u), mean(v)))

\* v is w rounded to a multiple of 1/unit: v is such a multiple, at most half a
\* unit from w.
IsRounded(v, w, unit) ==
    /\ isfinite(v)
    /\ unit % v.d = 0
    /\ ~Less(Fin(1, 2 * unit), Sub(v, w))
    /\ ~Less(Fin(1, 2 * unit), Sub(w, v))

\* Y - 2 X is the same on every date.
TwiceXPlusConstant(x, y) ==
    \A i \in 1..Len(x) :
        Sub(y[i], Mul(Fin(2, 1), x[i])) = Sub(y[1], Mul(Fin(2, 1), x[1]))

\* The case of C3: at least two finite excess returns each, and Var(X) # 0.
C3_Case ==
    /\ FitDone
    /\ Len(market_excess_ret) >= 2
    /\ Len(stock_excess_ret) = Len(market_excess_ret)
    /\ AllFinite(market_excess_ret)
    /\ AllFinite(stock_excess_ret)
    /\ Covariance(market_excess_ret, market_excess_ret) # Zero

\* C3: with X the benchmark's and Y the instrument's excess returns, Beta is
\* Cov(X,Y) / Var(X), the period Alpha is mean(Y) - Beta * mean(X), the annualized
\* Alpha is the period Alpha times the periods per year, the report holds both
\* rounded, and Y = 2 X + c gives Beta = 2 and period Alpha = c.
C3_BetaAlpha ==
    C3_Case =>
        LET X   == market_excess_ret
            Y   == stock_excess_ret
            row == results[Len(results)]
        IN  /\ beta = Div(Covariance(X, Y), Covariance(X, X))
            /\ alpha = Sub(mean(Y), Mul(beta, mean(X)))
            /\ isfinite(alpha_annual)
            /\ alpha_annual.n * alpha.d = alpha.n * PeriodsPerYear * alpha_annual.d
            /\ IsRounded(row.Beta, beta, 100)
            /\ IsRounded(row.Alpha, alpha_annual, 10000)
            /\ TwiceXPlusConstant(X, Y) =>
                  /\ beta = Fin(2, 1)
                  /\ alpha = Sub(Y[1], Mul(Fin(2, 1), X[1]))

\* C3's case on a line Y = 2 X + c with c # 0.
C3_Witness ==
    /\ C3_Case
    /\ TwiceXPlusConstant(market_excess_ret, stock_excess_ret)
    /\ beta = Fin(2, 1)
    /\ alpha # Zero

\* The run is on the prices of the regression example.
OnExample ==
    /\ tickers = <<"AAPL">>
    /\ Column(data, "AAPL") = <<Fin(100, 1), Fin(110, 1), Fin(121, 1)>>
    /\ Column(data, "SPY") = <<Fin(100, 1), Fin(105, 1), Fin(441, 4)>>

\* The returns of the example: AAPL = [0.10, 0.10] and SPY = [0.05, 0.05].
ExampleReturns ==
    /\ Column(returns, "AAPL") = <<Fin(1, 10), Fin(1, 10)>>
    /\ Column(returns, "SPY") = <<Fin(1, 20), Fin(1, 20)>>

\* C4 as stated: on the example the returns are AAPL = [0.10, 0.10] and
\* SPY = [0.05, 0.05], and the regression of the excess returns at period rate 0
\* yields Beta = 2.0, Alpha = 0.0 and RSquared = 1.0.
C4_ExampleYieldsBeta2 ==
    (OnExample /\ AfterReturns) =>
        LET x == excess(returns, "SPY", Zero)
            y == excess(returns, "AAPL", Zero)
        IN  /\ ExampleReturns
            /\ linregress_raises(x, y) = ""
            /\ linregress(x, y).slope = Fin(2, 1)
            /\ linregress(x, y).intercept = Zero
            /\ linregress(x, y).rsq = One

\* C4 amended: on the example the returns are AAPL = [0.10, 0.10] and
\* SPY = [0.05, 0.05]; the benchmark's excess returns are identical, at period rate
\* 0 as at the rate of the run, so the regression raises the error of identical x
\* values and the run yields no Beta, Alpha or RSquared.
C4_ExampleRaises ==
    (OnExample /\ AfterReturns) =>
        /\ ExampleReturns
        /\ linregress_raises(excess(returns, "SPY", Zero),
                             excess(returns, "AAPL", Zero)) = IdenticalX
        /\ results = << >>
        /\ df_results = << >>
        /\ ~Reported
        /\ pc = "raised" => err = IdenticalX

\* C4's case: the run on the example has ended, in the error of identical x values.
C4_Witness ==
    /\ OnExample
    /\ pc = "raised"
    /\ err = IdenticalX
    /\ Len(market_excess_ret) = 2
    /\ market_excess_ret[1] = market_excess_ret[2]

\* All values of a series are the same value.
Identical(x) == \A i, j \in 1..Len(x) : NumEq(x[i], x[j])

\* The run is over: calculate_capm raised, or its frame was printed.
Ended == pc \in {"raised", "done"}

\* No price of the table is zero.
NoZeroPrice ==
    \A i \in 1..Len(data) : \A s \in all_symbols(tickers) : ~NumEq(data[i].px[s], Zero)

\* C5: when all excess returns of the benchmark are identical, the regression
\* fails with the error of zero variance and yields no Beta, Alpha or R-squared
\* for any instrument.  (Stated for tables without a missing or a zero price.)
C5_IdenticalBenchmarkRaises ==
    (Ended /\ tickers # << >> /\ NoMissing(data) /\ NoZeroPrice /\ Len(returns) >= 1
           /\ Identical(excess(returns, benchmark, rf_monthly))) =>
        /\ pc = "raised"
        /\ err = IdenticalX
        /\ results = << >>
        /\ df_results = << >>

\* Some price that a return divides by is exactly zero.
ZeroPrevPrice ==
    \E i \in 1..(Len(data) - 1) : \E s \in all_symbols(tickers) :
        NumEq(data[i].px[s], Zero)

\* C6: when some price[t-1] is zero the return computation signals an error (here:
\* the run ends in an error, whichever), and no infinite or NaN return is passed on
\* to the excess returns and the regression.
C6_ZeroPriceSignalled ==
    (Ended /\ tickers # << >> /\ ZeroPrevPrice) =>
        /\ pc = "raised"
        /\ \A i \in 1..Len(returns) : \A s \in all_symbols(tickers) :
              isfinite(returns[i].px[s])

\* C7: when fewer than 2 price observations remain for some requested symbol after
\* resampling, calculate_capm fails with an error and returns no report.  (Stated
\* for tables without a zero price, which are C6's.)
C7_FewObservationsRaise ==
    (Ended /\ NoZeroPrice /\ \E s \in all_symbols(tickers) : Observations(data, s) < 2) =>
        /\ pc = "raised"
        /\ df_results = << >>

\* C9: a run either returns a report with one row per requested ticker, every
\* Beta, Alpha and R-squared of it finite, or it ends in an error without a
\* report.
C9_AllOrNothing ==
    /\ Reported =>
          /\ Len(df_results) = Len(tickers)
          /\ \A i \in 1..Len(df_results) :
                /\ df_results[i].Stock = tickers[i]
                /\ isfinite(df_results[i].Beta)
                /\ isfinite(df_results[i].Alpha)
                /\ isfinite(df_results[i].RSquared)
    /\ pc = "raised" => df_results = << >>

\* The row of the (resampled) price table with the date of a row of returns.
PriceRow(r) == data[CHOOSE j \in 1..Len(data) : data[j].date = r.date]

AllNa(row) == \A s \in DOMAIN row.px : isna(row.px[s])

\* C10: with monthly resampling, a month without any observation contributes no
\* row to the price table and no return (a row of the resampled table without any
\* price is a month in which no row was downloaded).  (Stated for tables without a
\* zero price in which every symbol has two observations or more.)
C10_EmptyMonthAbsent ==
    (monthly /\ AfterReturns /\ tickers # << >> /\ NoZeroPrice
             /\ \A s \in all_symbols(tickers) : Observations(data, s) >= 2) =>
        /\ \A j \in 1..Len(data) : ~AllNa(data[j])
        /\ \A i \in 1..Len(returns) : ~AllNa(PriceRow(returns[i]))

(***************************************************************************)
(* The sort of the printed report, on frames drawn from bounded sets        *)
(***************************************************************************)
\* Rows of a frame to sort, at most.
MaxFrame == 3

\* The Betas of the frames to sort are NaN or one of 0.50, 1.00, ..., MaxBeta / 2.
MaxBeta == 2

\* Names of top_10_stocks, in lexical order.
LexOrder == <<"AAPL", "GOOGL", "MSFT", "NVDA">>

LexRank(name) == CHOOSE i \in 1..Len(LexOrder) : LexOrder[i] = name

LexLess(a, b) == LexRank(a) < LexRank(b)

BetaLevels == {NaN} \cup {Fin(50 * b, 100) : b \in 1..MaxBeta}

\* The frames calculate_capm may have returned for distinct tickers passed in any
\* order: one row per ticker, its Beta rounded to two decimals or NaN.
Frames ==
    UNION {{f \in [1..n -> [Stock : Range(LexOrder), Beta : BetaLevels,
                            Alpha : {Zero}, RSquared : {Zero}]] :
                \A i, j \in 1..n : f[i].Stock = f[j].Stock => i = j} :
           n \in 1..MaxFrame}

SortInit ==
    /\ pc = "returned"
    /\ df_results \in Frames
    /\ results = df_results
    /\ tickers = [i \in 1..Len(df_results) |-> df_results[i].Stock]
    /\ monthly = TRUE
    /\ data = << >>
    /\ returns = << >>
    /\ rf_monthly = period_rate(TRUE)
    /\ stock_excess_ret = << >>
    /\ market_excess_ret = << >>
    /\ beta = None
    /\ alpha = None
    /\ alpha_annual = None
    /\ err = ""
    /\ printed = << >>

SortSpec == SortInit /\ [][PrintSorted]_vars

\* The position of a printed row in the returned frame.
RowOf(r) == CHOOSE k \in 1..Len(df_results) : df_results[k].Stock = r.Stock

\* Rows of equal Beta were printed in the order they have in the returned frame,
\* which is what a sort does that keeps the order of equal keys.
TiesKeepOrder ==
    \A i, j \in 1..Len(printed) :
        (i < j /\ NumEq(printed[i].Beta, printed[j].Beta)) =>
            RowOf(printed[i]) < RowOf(printed[j])

\* C8 as stated: the printed report is sorted by Beta in descending order, and two
\* instruments of equal Beta appear in lexical order of their symbols.  (Stated for
\* the prints that keep the order of equal Betas; the other prints refute it too.)
C8_TiesLexical ==
    (pc = "done" /\ TiesKeepOrder) =>
        \A i, j \in 1..Len(printed) :
            i < j =>
                /\ ~Less(printed[i].Beta, printed[j].Beta)
                /\ NumEq(printed[i].Beta, printed[j].Beta) =>
                      LexLess(printed[i].Stock, printed[j].Stock)

\* C8 amended: the printed report holds the rows of the returned report, sorted by
\* Beta in descending order with the rows of NaN Beta last; instruments of equal
\* Beta appear in no particular order.
C8_SortedByBetaDescending ==
    (pc = "done") =>
        /\ Len(printed) = Len(df_results)
        /\ \A k \in 1..Len(df_results) : \E i \in 1..Len(printed) : printed[i] = df_results[k]
        /\ \A i, j \in 1..Len(printed) :
              i < j =>
                  /\ isna(printed[i].Beta) => isna(printed[j].Beta)
                  /\ ~Less(printed[i].Beta, printed[j].Beta)

\* C8's case: a report of three rows was printed, two of them with the same Beta and
\* the third with a smaller one.
C8_Witness ==
    /\ pc = "done"
    /\ Len(printed) = 3
    /\ NumEq(printed[1].Beta, printed[2].Beta)
    /\ Less(printed[3].Beta, printed[2].Beta)

====
